---- MODULE Spec2Model ----
(***************************************************************************)
(* Model of the llms.txt generator service (src/main.py), its shared       *)
(* helpers (src/helpers.py) and the polling client (src/client.py).        *)
(*                                                                         *)
(* Python strings are sequences of one-character strings, so that          *)
(* urlparse, str.lower, str.title, str.replace, str.split, the "in"        *)
(* substring test and the ordering used by sorted() are computed the way   *)
(* the interpreter computes them.                                          *)
(***************************************************************************)
EXTENDS Integers, Sequences, FiniteSets, TLC

VARIABLES
    entry,            \* "post": run_job against the service of main.py; "call": perform_crawl called directly;
                      \* "group": group_crawled_pages called directly;
                      \* "client": run_job against whatever answers at BASE_URL
    url,              \* run_job's url argument
    target_url,       \* perform_crawl's target_url argument
    svc_pc,           \* position of the request inside generate_llms_txt
    crawl_url_arg,    \* the url argument handed to firecrawl_app.crawl_url, NoUrl before
    provider_calls,   \* number of calls of firecrawl_app.crawl_url
    provider_error,   \* str(e) of the exception the provider raised, <<>> when none
    provider_raised,  \* whether the provider call raised
    crawled_pages,    \* crawl_response.data as returned by perform_crawl
    http_exc,         \* status code of the HTTPException raised, 0 when none
    exc_detail,       \* which HTTPException detail was raised, "" when none
    url_groups,       \* the dict built by group_crawled_pages, in insertion order
    processed_count,  \* group_crawled_pages' processed_count
    filtered_count,   \* group_crawled_pages' filtered_count
    final_output,     \* the text of the llms.txt document, <<>> before
    file_written,     \* whether write_output_to_file stored the document
    response,         \* the HTTP response to the POST, NoResponse before
    client_pc,        \* position of run_job
    job_id,           \* job_id taken from the POST response, "" when none
    status_requests,  \* number of GET requests issued against status_url
    poll_status,      \* status code of the last status response, 0 before, -1 when the request raised
    clock,            \* seconds slept by the client so far
    last_request_at,  \* clock value at the last status request
    console           \* what run_job printed last

vars == <<entry, url, target_url, svc_pc, crawl_url_arg, provider_calls, provider_error,
          provider_raised, crawled_pages, http_exc, exc_detail, url_groups,
          processed_count, filtered_count, final_output, file_written, response,
          client_pc, job_id, status_requests, poll_status, clock, last_request_at,
          console>>

svc_vars == <<target_url, svc_pc, crawl_url_arg, provider_calls, provider_error,
              provider_raised, crawled_pages, http_exc, exc_detail, url_groups,
              processed_count, filtered_count, final_output, file_written>>

client_vars == <<client_pc, job_id, status_requests, poll_status, clock,
                 last_request_at, console>>

(***************************************************************************)
(* Bounds of the model.                                                    *)
(***************************************************************************)
MaxPages == 3
MaxPolls == 3

(***************************************************************************)
(* Characters and strings.                                                 *)
(***************************************************************************)
ascii_lowercase == <<"a","b","c","d","e","f","g","h","i","j","k","l","m",
                     "n","o","p","q","r","s","t","u","v","w","x","y","z">>
ascii_uppercase == <<"A","B","C","D","E","F","G","H","I","J","K","L","M",
                     "N","O","P","Q","R","S","T","U","V","W","X","Y","Z">>
digits == <<"0","1","2","3","4","5","6","7","8","9">>

Range(t) == {t[i] : i \in 1..Len(t)}

\* index of the first occurrence of character c in s, 0 when absent
find(s, c) ==
    IF \E i \in 1..Len(s) : s[i] = c
    THEN CHOOSE i \in 1..Len(s) : s[i] = c /\ \A k \in 1..(i-1) : s[k] # c
    ELSE 0

isupper(c) == c \in Range(ascii_uppercase)
islower(c) == c \in Range(ascii_lowercase)
isalpha(c) == isupper(c) \/ islower(c)
iscased(c) == isalpha(c)

lower_char(c) == IF isupper(c) THEN ascii_lowercase[find(ascii_uppercase, c)] ELSE c
upper_char(c) == IF islower(c) THEN ascii_uppercase[find(ascii_lowercase, c)] ELSE c

\* ord(c) for the ASCII characters the model uses
ord(c) ==
    IF isupper(c) THEN 64 + find(ascii_uppercase, c)
    ELSE IF islower(c) THEN 96 + find(ascii_lowercase, c)
    ELSE IF c \in Range(digits) THEN 47 + find(digits, c)
    ELSE CASE c = " " -> 32
           [] c = "#" -> 35
           [] c = "+" -> 43
           [] c = "-" -> 45
           [] c = "." -> 46
           [] c = "/" -> 47
           [] c = ":" -> 58
           [] c = "?" -> 63
           [] c = "[" -> 91
           [] c = "]" -> 93

\* str.lower()
lower(s) == [i \in 1..Len(s) |-> lower_char(s[i])]

\* str.replace(old, new) for one-character old and new
replace(s, old, new) == [i \in 1..Len(s) |-> IF s[i] = old THEN new ELSE s[i]]

\* str.title(): a cased character is upper-cased when the character before it
\* is not cased, lower-cased otherwise
title(s) ==
    [i \in 1..Len(s) |->
        IF i > 1 /\ iscased(s[i-1]) THEN lower_char(s[i]) ELSE upper_char(s[i])]

\* sub in s
contains(sub, s) ==
    \E i \in 0..(Len(s) - Len(sub)) : SubSeq(s, i + 1, i + Len(sub)) = sub

\* s[i:] with a 1-based i
from(s, i) == SubSeq(s, i, Len(s))

\* str.split(sep) for a one-character sep: the list of pieces, empty ones included
RECURSIVE split(_, _)
split(s, sep) ==
    LET i == find(s, sep)
    IN  IF i = 0 THEN <<s>>
        ELSE <<SubSeq(s, 1, i - 1)>> \o split(from(s, i + 1), sep)

\* s < t as Python orders str: by code point, a proper prefix first
RECURSIVE str_less(_, _)
str_less(s, t) ==
    IF t = <<>> THEN FALSE
    ELSE IF s = <<>> THEN TRUE
    ELSE IF s[1] = t[1] THEN str_less(Tail(s), Tail(t))
    ELSE ord(s[1]) < ord(t[1])

(***************************************************************************)
(* urllib.parse.urlparse, for URLs without ";" parameters, whitespace or   *)
(* a "]" in the host.  ok is FALSE where urlparse raises ValueError.       *)
(***************************************************************************)
scheme_chars == Range(ascii_lowercase) \cup Range(ascii_uppercase)
                    \cup Range(digits) \cup {"+", "-", "."}

\* index of the first of "/", "?", "#" in s at or after position start, Len(s)+1 when none
first_delim(s, start) ==
    IF \E i \in start..Len(s) : s[i] \in {"/", "?", "#"}
    THEN CHOOSE i \in start..Len(s) :
            s[i] \in {"/", "?", "#"} /\ \A k \in start..(i-1) : s[k] \notin {"/", "?", "#"}
    ELSE Len(s) + 1

\* the last steps of urlsplit: the fragment is cut at the first "#", then the
\* query at the first "?"; ValueError when the netloc has "[" without "]"
split_query(scheme, netloc, rest, fragment) ==
    [ok       |-> ~(("[" \in Range(netloc)) /\ ("]" \notin Range(netloc))),
     scheme   |-> scheme,
     netloc   |-> netloc,
     path     |-> IF find(rest, "?") > 0 THEN SubSeq(rest, 1, find(rest, "?") - 1) ELSE rest,
     query    |-> IF find(rest, "?") > 0 THEN from(rest, find(rest, "?") + 1) ELSE <<>>,
     fragment |-> fragment]

split_fragment(scheme, netloc, rest) ==
    split_query(scheme, netloc,
                IF find(rest, "#") > 0 THEN SubSeq(rest, 1, find(rest, "#") - 1) ELSE rest,
                IF find(rest, "#") > 0 THEN from(rest, find(rest, "#") + 1) ELSE <<>>)

\* after the scheme: "//" starts the netloc, which ends before the first of "/", "?", "#"
split_netloc(scheme, rest) ==
    IF Len(rest) >= 2 /\ rest[1] = "/" /\ rest[2] = "/"
    THEN split_fragment(scheme, SubSeq(rest, 3, first_delim(rest, 3) - 1),
                        from(rest, first_delim(rest, 3)))
    ELSE split_fragment(scheme, <<>>, rest)

\* whether u[:i] is a scheme, i being the position of the first ":"
has_scheme(u, i) ==
    i > 1 /\ isalpha(u[1]) /\ \A k \in 1..(i-1) : u[k] \in scheme_chars

urlparse(u) ==
    IF has_scheme(u, find(u, ":"))
    THEN split_netloc(lower(SubSeq(u, 1, find(u, ":") - 1)), from(u, find(u, ":") + 1))
    ELSE split_netloc(<<>>, u)

\* whether urlparse(u) raises ValueError ("Invalid IPv6 URL")
urlparse_raises(u) == ~urlparse(u).ok

(***************************************************************************)
(* The two URL validators.                                                 *)
(***************************************************************************)
http  == <<"h","t","t","p">>
https == <<"h","t","t","p","s">>
supported_schemes == {http, https}

\* main.py; the value returned when urlparse does not raise
validate_url_scheme(u) == urlparse(u).scheme \in supported_schemes

\* helpers.py; the value returned when urlparse does not raise
scheme_and_netloc(parsed) == parsed.scheme \in supported_schemes /\ parsed.netloc # <<>>

helpers_validate_url_scheme(u) == scheme_and_netloc(urlparse(u))

(***************************************************************************)
(* Dictionaries and pages.  A page is [id, has_metadata, metadata]: id is  *)
(* the object's identity (its position in the provider's list),            *)
(* has_metadata is FALSE for metadata None, and metadata is a function     *)
(* from the keys present to strings.  A value of None is the empty string: *)
(* the code only tests these values for truth.                             *)
(***************************************************************************)
None == <<>>
EmptyDict == <<>>

\* dict.get(key, default)
get(d, key, default) == IF key \in DOMAIN d THEN d[key] ELSE default

Homepage == <<"H","o","m","e","p","a","g","e">>
NoTitle  == <<"N","o"," ","T","i","t","l","e">>

\* lines 124-131 of group_crawled_pages
key_of_segments(path_segments) ==
    IF path_segments = <<>>
    THEN Homepage
    ELSE title(replace(path_segments[1], "-", " "))

group_key(sourceURL) ==
    key_of_segments(SelectSeq(split(urlparse(sourceURL).path, "/"),
                              LAMBDA segment : segment # <<>>))

\* url_groups[key] = [page]: the list of the key replaced instead of extended
dict_append_overwrite(d, key, page) ==
    IF \E i \in 1..Len(d) : d[i].key = key
    THEN [i \in 1..Len(d) |->
            IF d[i].key = key THEN [d[i] EXCEPT !.pages = <<page>>] ELSE d[i]]
    ELSE Append(d, [key |-> key, pages |-> <<page>>])

\* url_groups[key].append(page) on a defaultdict(list) kept in insertion order
dict_append(d, key, page) ==
    IF \E i \in 1..Len(d) : d[i].key = key
    THEN [i \in 1..Len(d) |->
            IF d[i].key = key THEN [d[i] EXCEPT !.pages = Append(@, page)] ELSE d[i]]
    ELSE Append(d, [key |-> key, pages |-> <<page>>])

\* the test of line 120
page_is_filtered(page) ==
    \/ ~page.has_metadata
    \/ page.metadata = EmptyDict
    \/ get(page.metadata, "sourceURL", None) = <<>>

\* one iteration of the loop of group_crawled_pages
group_step(acc, page) ==
    IF page_is_filtered(page)
    THEN [acc EXCEPT !.filtered_count = @ + 1]
    ELSE IF urlparse_raises(page.metadata["sourceURL"])
    THEN [acc EXCEPT !.filtered_count = @ + 1]
    ELSE [acc EXCEPT !.url_groups = dict_append(@, group_key(page.metadata["sourceURL"]), page),
                     !.processed_count = @ + 1]

\* the loop of group_crawled_pages
RECURSIVE group_loop(_, _)
group_loop(pages, acc) ==
    IF pages = <<>> THEN acc
    ELSE group_loop(Tail(pages), group_step(acc, Head(pages)))

\* group_crawled_pages without the check of lines 141-145
group_crawled_pages_unchecked(pages) ==
    LET empty == [url_groups |-> <<>>, processed_count |-> 0, filtered_count |-> 0]
    IN  IF pages = <<>>
        THEN [exc |-> 404, detail |-> "No pages were found to process", acc |-> empty]
        ELSE [exc |-> 0, detail |-> "", acc |-> group_loop(pages, empty)]

\* group_crawled_pages: exc is the status of the HTTPException raised, 0 when it returns
group_crawled_pages(pages) ==
    LET empty == [url_groups |-> <<>>, processed_count |-> 0, filtered_count |-> 0]
        acc   == group_loop(pages, empty)
    IN  IF pages = <<>>
        THEN [exc |-> 404, detail |-> "No pages were found to process", acc |-> empty]
        ELSE IF acc.processed_count = 0
        THEN [exc |-> 404, detail |-> "No valid pages found after filtering",
              acc |-> [acc EXCEPT !.url_groups = <<>>]]
        ELSE [exc |-> 0, detail |-> "", acc |-> acc]

(***************************************************************************)
(* format_groups_to_llmstxt.                                               *)
(***************************************************************************)
\* sorted(url_groups.items()): the keys are distinct, so the order is that of the keys
RECURSIVE insert_sorted(_, _)
insert_sorted(item, items) ==
    IF items = <<>> THEN <<item>>
    ELSE IF str_less(item.key, Head(items).key) THEN <<item>> \o items
    ELSE <<Head(items)>> \o insert_sorted(item, Tail(items))

RECURSIVE sorted_items(_)
sorted_items(d) ==
    IF d = <<>> THEN <<>>
    ELSE insert_sorted(Head(d), sorted_items(Tail(d)))

\* sep.join(parts)
RECURSIVE join(_, _)
join(sep, parts) ==
    IF parts = <<>> THEN <<>>
    ELSE IF Len(parts) = 1 THEN parts[1]
    ELSE parts[1] \o sep \o join(sep, Tail(parts))

\* lines 165-173: the entry of one page
format_entry(page, group_name) ==
    LET title0      == get(page.metadata, "title", NoTitle)
        title1      == IF title0 = <<>> THEN group_name ELSE title0
        source      == get(page.metadata, "sourceURL", None)
        description == get(page.metadata, "description", None)
        entry0      == <<"-", " ", "[">> \o title1 \o <<"]", "(">> \o source \o <<")">>
    IN  IF description # <<>> THEN entry0 \o <<":", " ">> \o description ELSE entry0

\* lines 162-176: the two parts one group adds to final_output_parts
format_group(item) ==
    << <<"#", "#", " ">> \o item.key,
       join(<<"\n">>, [i \in 1..Len(item.pages) |-> format_entry(item.pages[i], item.key)]) >>

RECURSIVE format_parts(_)
format_parts(items) ==
    IF items = <<>> THEN <<>>
    ELSE format_group(Head(items)) \o format_parts(Tail(items))

\* str.strip() = ""
is_blank(s) == \A i \in 1..Len(s) : s[i] \in {" ", "\n", "\t"}

\* format_groups_to_llmstxt iterating url_groups.items() as the dict holds them
format_groups_unsorted(groups) ==
    LET result == join(<<"\n", "\n">>, format_parts(groups))
    IN  IF groups = <<>>
        THEN [exc |-> 404, detail |-> "No content to format", result |-> <<>>]
        ELSE IF is_blank(result)
        THEN [exc |-> 404, detail |-> "Generated content is empty", result |-> <<>>]
        ELSE [exc |-> 0, detail |-> "", result |-> result]

\* format_groups_to_llmstxt: exc is the status of the HTTPException raised, 0 when it returns
format_groups_to_llmstxt(groups) ==
    LET result == join(<<"\n", "\n">>, format_parts(sorted_items(groups)))
    IN  IF groups = <<>>
        THEN [exc |-> 404, detail |-> "No content to format", result |-> <<>>]
        ELSE IF is_blank(result)
        THEN [exc |-> 404, detail |-> "Generated content is empty", result |-> <<>>]
        ELSE [exc |-> 0, detail |-> "", result |-> result]

(***************************************************************************)
(* perform_crawl.                                                          *)
(***************************************************************************)
s_timeout    == <<"t","i","m","e","o","u","t">>
s_rate_limit == <<"r","a","t","e"," ","l","i","m","i","t">>
s_quota      == <<"q","u","o","t","a">>
s_not_found  == <<"n","o","t"," ","f","o","u","n","d">>
s_404        == <<"4","0","4">>

\* the classification with the patterns looked up in str(e) itself
classify_case_sensitive(e) ==
    IF contains(s_timeout, e) THEN 408
    ELSE IF contains(s_rate_limit, e) \/ contains(s_quota, e) THEN 429
    ELSE IF contains(s_not_found, e) \/ contains(s_404, e) THEN 404
    ELSE 502

\* lines 88-105 of main.py: the status code an exception of the provider call is mapped to
classify_provider_error(e) ==
    IF contains(s_timeout, lower(e)) THEN 408
    ELSE IF contains(s_rate_limit, lower(e)) \/ contains(s_quota, lower(e)) THEN 429
    ELSE IF contains(s_not_found, lower(e)) \/ contains(s_404, e) THEN 404
    ELSE 502

\* helpers.py: the status code of the HTTPException handle_crawl_exception raises
handle_crawl_exception(e) ==
    IF contains(s_timeout, lower(e)) THEN 408
    ELSE IF contains(s_rate_limit, lower(e)) \/ contains(s_quota, lower(e)) THEN 429
    ELSE IF contains(s_not_found, lower(e)) \/ contains(s_404, e) THEN 404
    ELSE 502

NoUrl == <<>>

\* perform_crawl with the provider called before the URL is validated
perform_crawl_call_first(u, outcome) ==
    LET quiet == [calls |-> 0, arg |-> NoUrl, raised |-> FALSE, error |-> <<>>,
                  exc |-> 0, detail |-> "", data |-> <<>>, value_error |-> FALSE]
        called == [quiet EXCEPT !.calls = 1, !.arg = u]
    IN  IF outcome.kind = "raise"
        THEN [called EXCEPT !.raised = TRUE, !.error = outcome.error,
                            !.exc = classify_provider_error(outcome.error),
                            !.detail = "provider error"]
        ELSE IF urlparse_raises(u)
        THEN [called EXCEPT !.value_error = TRUE]
        ELSE IF ~validate_url_scheme(u)
        THEN [called EXCEPT !.exc = 400, !.detail = "Only HTTP and HTTPS URLs are supported"]
        ELSE IF outcome.kind = "none"
        THEN [called EXCEPT !.exc = 404, !.detail = "No Response Found!"]
        ELSE IF outcome.pages = <<>>
        THEN [called EXCEPT !.exc = 404, !.detail = "No Data Found!"]
        ELSE [called EXCEPT !.data = outcome.pages]

\* what perform_crawl(u, limit) does when the provider call, if made, has the given outcome:
\*   kind "raise": crawl_url raises an exception whose str() is outcome.error
\*   kind "none":  crawl_url returns a false value
\*   kind "data":  crawl_url returns a response whose data is outcome.pages (possibly empty)
\* value_error: urlparse raised inside validate_url_scheme, outside any try
perform_crawl(u, outcome) ==
    LET quiet == [calls |-> 0, arg |-> NoUrl, raised |-> FALSE, error |-> <<>>,
                  exc |-> 0, detail |-> "", data |-> <<>>, value_error |-> FALSE]
        called == [quiet EXCEPT !.calls = 1, !.arg = u]
    IN  IF urlparse_raises(u)
        THEN [quiet EXCEPT !.value_error = TRUE]
        ELSE IF ~validate_url_scheme(u)
        THEN [quiet EXCEPT !.exc = 400, !.detail = "Only HTTP and HTTPS URLs are supported"]
        ELSE IF outcome.kind = "raise"
        THEN [called EXCEPT !.raised = TRUE, !.error = outcome.error,
                            !.exc = classify_provider_error(outcome.error),
                            !.detail = "provider error"]
        ELSE IF outcome.kind = "none"
        THEN [called EXCEPT !.exc = 404, !.detail = "No Response Found!"]
        ELSE IF outcome.pages = <<>>
        THEN [called EXCEPT !.exc = 404, !.detail = "No Data Found!"]
        ELSE [called EXCEPT !.data = outcome.pages]

(***************************************************************************)
(* The request model of the endpoint: CrawlRequest.url is a pydantic       *)
(* HttpUrl, and generate_llms_txt works on str(request.url).               *)
(***************************************************************************)
http_url_ok(parsed) ==
    parsed.ok /\ parsed.scheme \in supported_schemes /\ parsed.netloc # <<>>

is_http_url(u) == http_url_ok(urlparse(u))

unparse(parsed) ==
    parsed.scheme \o <<":", "/", "/">> \o lower(parsed.netloc)
        \o (IF parsed.path = <<>> THEN <<"/">> ELSE parsed.path)
        \o (IF parsed.query = <<>> THEN <<>> ELSE <<"?">> \o parsed.query)
        \o (IF parsed.fragment = <<>> THEN <<>> ELSE <<"#">> \o parsed.fragment)

http_url_str(u) == unparse(urlparse(u))

(***************************************************************************)
(* The client's reading of a response.                                     *)
(***************************************************************************)
\* requests' Response.raise_for_status() raises HTTPError
raise_for_status(status_code) == 400 <= status_code /\ status_code < 600

\* every status but 200 taken for "still processing"
still_processing_unless_200(status_code) == status_code # 200

\* line 72 of client.py
still_processing(status_code) == status_code = 202

PollInterval == 5

NoResponse == [status |-> 0, json |-> FALSE, text |-> <<>>, data |-> EmptyDict]

(***************************************************************************)
(* Inputs.                                                                 *)
(***************************************************************************)
Sep  == <<":", "/", "/">>
Host == <<"x", ".", "c", "o">>

U_root     == https \o Sep \o Host
U_path     == http \o Sep \o Host \o <<"/", "a", "-", "b">>
U_upper    == <<"H","T","T","P">> \o Sep \o <<"X", ".", "c", "o">>
U_ftp      == <<"f","t","p">> \o Sep \o Host \o <<"/", "a">>
U_noscheme == Host \o <<"/", "a">>
U_nohost   == http \o <<":", "/", "/", "/", "p">>
U_badv6    == http \o Sep \o <<"[", "x", "/", "a">>

\* the arguments of perform_crawl
URLS == {U_root, U_path, U_upper, U_ftp, U_noscheme, U_nohost, U_badv6}

\* the arguments of run_job
ClientURLS == {U_upper, U_ftp, U_nohost, U_badv6}

S_blog == https \o Sep \o Host \o <<"/","b","l","o","g","/","p">>
S_ab   == https \o Sep \o Host \o <<"/","a","-","b","/","t">>
S_AB   == https \o Sep \o Host \o <<"/","A","-","b","/","u","?","q">>

\* the metadata of the pages the provider may return; "none" stands for metadata None
PageMetadata ==
    { [none |-> TRUE,  d |-> EmptyDict],
      [none |-> FALSE, d |-> [title |-> <<"T">>]],
      [none |-> FALSE, d |-> [sourceURL |-> <<>>, title |-> <<"E">>]],
      [none |-> FALSE, d |-> [sourceURL |-> U_root]],
      [none |-> FALSE, d |-> [sourceURL |-> S_blog, title |-> <<"P">>, description |-> <<"d">>]],
      [none |-> FALSE, d |-> [sourceURL |-> S_ab, title |-> <<>>]],
      [none |-> FALSE, d |-> [sourceURL |-> S_AB, title |-> <<"B">>, description |-> <<>>]],
      [none |-> FALSE, d |-> [sourceURL |-> U_badv6, title |-> <<"V">>]] }

\* the lists of at most MaxPages pages
PageLists ==
    UNION { { [i \in 1..n |-> [id |-> i, has_metadata |-> ~f[i].none, metadata |-> f[i].d]]
                : f \in [1..n -> PageMetadata] } : n \in 0..MaxPages }

ErrorTexts ==
    { <<"T","i","m","e","o","u","t">>,
      <<"R","a","t","e"," ","l","i","m","i","t">>,
      <<"q","u","o","t","a">>,
      <<"N","o","t"," ","F","o","u","n","d">>,
      <<"E","4","0","4">>,
      <<"b","o","o","m">>,
      <<"q","u","o","t","a"," ","t","i","m","e","o","u","t">>,
      <<"4","0","4"," ","r","a","t","e"," ","l","i","m","i","t">> }

ProviderOutcomes ==
    { [kind |-> "raise", error |-> e, pages |-> <<>>] : e \in ErrorTexts }
    \cup { [kind |-> "none", error |-> <<>>, pages |-> <<>>] }
    \cup { [kind |-> "data", error |-> <<>>, pages |-> ps] : ps \in PageLists }

\* what a server at BASE_URL may answer to the POST
PostResponses ==
    { [status |-> 200, json |-> TRUE, text |-> <<>>,
       data |-> [job_id |-> "j1", status_url |-> "/crawl-status/j1"]],
      [status |-> 202, json |-> TRUE, text |-> <<>>,
       data |-> [job_id |-> "j1", status_url |-> "/crawl-status/j1"]],
      [status |-> 200, json |-> TRUE, text |-> <<>>, data |-> [job_id |-> "j1"]],
      [status |-> 200, json |-> TRUE, text |-> <<>>, data |-> [job_id |-> ""]],
      [status |-> 200, json |-> TRUE, text |-> <<>>, data |-> [status_url |-> "/crawl-status/j1"]],
      [status |-> 200, json |-> FALSE, text |-> <<"#", "#", " ", "A">>, data |-> EmptyDict],
      [status |-> 400, json |-> TRUE, text |-> <<>>, data |-> [detail |-> "bad"]],
      [status |-> 502, json |-> TRUE, text |-> <<>>, data |-> [detail |-> "bad"]] }

\* the status codes a status request may be answered with; RequestRaised: the request raised
RequestRaised == -1
StatusAnswers == {200, 201, 202, 204, 304, 400, 404, 500, RequestRaised}

(***************************************************************************)
(* Initial states.                                                         *)
(***************************************************************************)
ClientIdle ==
    /\ job_id = ""
    /\ status_requests = 0
    /\ poll_status = 0
    /\ clock = 0
    /\ last_request_at = 0
    /\ console = ""

\* the service state before a request, but for crawled_pages
ServiceIdle ==
    /\ crawl_url_arg = NoUrl
    /\ provider_calls = 0
    /\ provider_error = <<>>
    /\ provider_raised = FALSE
    /\ http_exc = 0
    /\ exc_detail = ""
    /\ url_groups = <<>>
    /\ processed_count = 0
    /\ filtered_count = 0
    /\ final_output = <<>>
    /\ file_written = FALSE
    /\ response = NoResponse

\* run_job(url) against the service of main.py, perform_crawl(target_url) called
\* directly, or group_crawled_pages(pages) called directly
Init ==
    /\ ServiceIdle
    /\ ClientIdle
    /\ entry \in {"post", "call", "group"}
    /\ crawled_pages \in (IF entry = "group" THEN PageLists ELSE {<<>>})
    /\ url \in (IF entry = "post" THEN ClientURLS ELSE {NoUrl})
    /\ target_url \in (IF entry = "call" THEN URLS ELSE {NoUrl})
    /\ svc_pc = (CASE entry = "post" -> "idle" [] entry = "call" -> "crawl" [] entry = "group" -> "group")
    /\ client_pc = (IF entry = "post" THEN "start" ELSE "none")

\* run_job(url) against a server at BASE_URL of which only the answers are known
ClientInit ==
    /\ ServiceIdle
    /\ ClientIdle
    /\ crawled_pages = <<>>
    /\ entry = "client"
    /\ url \in ClientURLS
    /\ target_url = NoUrl
    /\ svc_pc = "idle"
    /\ client_pc = "start"

(***************************************************************************)
(* The service: generate_llms_txt and the functions it calls.              *)
(***************************************************************************)
\* the request body is validated against CrawlRequest before the handler runs
ParseRequest ==
    /\ svc_pc = "parse"
    /\ IF is_http_url(url)
       THEN /\ target_url' = http_url_str(url)
            /\ svc_pc' = "crawl"
            /\ UNCHANGED <<http_exc, exc_detail>>
       ELSE /\ target_url' = target_url
            /\ svc_pc' = "rejected"
            /\ http_exc' = 422
            /\ exc_detail' = "request validation"
    /\ UNCHANGED <<entry, url, crawl_url_arg, provider_calls, provider_error,
                   provider_raised, crawled_pages, url_groups, processed_count,
                   filtered_count, final_output, file_written, response>>
    /\ UNCHANGED client_vars

PerformCrawl ==
    /\ svc_pc = "crawl"
    /\ \E outcome \in ProviderOutcomes :
         LET r == perform_crawl(target_url, outcome)
         IN  /\ provider_calls' = provider_calls + r.calls
             /\ crawl_url_arg' = r.arg
             /\ provider_raised' = r.raised
             /\ provider_error' = r.error
             /\ http_exc' = r.exc
             /\ exc_detail' = r.detail
             /\ crawled_pages' = r.data
             /\ svc_pc' = IF r.value_error THEN "exception"
                          ELSE IF r.exc # 0 THEN "raised"
                          ELSE IF entry = "call" THEN "returned"
                          ELSE "group"
    /\ UNCHANGED <<entry, url, target_url, url_groups, processed_count,
                   filtered_count, final_output, file_written, response>>
    /\ UNCHANGED client_vars

Group ==
    /\ svc_pc = "group"
    /\ LET g == group_crawled_pages(crawled_pages)
       IN  /\ url_groups' = g.acc.url_groups
           /\ processed_count' = g.acc.processed_count
           /\ filtered_count' = g.acc.filtered_count
           /\ http_exc' = g.exc
           /\ exc_detail' = g.detail
           /\ svc_pc' = IF g.exc # 0 THEN "raised"
                        ELSE IF entry = "group" THEN "returned"
                        ELSE "format"
    /\ UNCHANGED <<entry, url, target_url, crawl_url_arg, provider_calls, provider_error,
                   provider_raised, crawled_pages, final_output, file_written, response>>
    /\ UNCHANGED client_vars

Format ==
    /\ svc_pc = "format"
    /\ LET f == format_groups_to_llmstxt(url_groups)
       IN  /\ final_output' = f.result
           /\ http_exc' = f.exc
           /\ exc_detail' = f.detail
           /\ svc_pc' = IF f.exc # 0 THEN "raised" ELSE "write"
    /\ UNCHANGED <<entry, url, target_url, crawl_url_arg, provider_calls, provider_error,
                   provider_raised, crawled_pages, url_groups, processed_count,
                   filtered_count, file_written, response>>
    /\ UNCHANGED client_vars

\* write_output_to_file: an IOError is printed and swallowed
WriteOutput ==
    /\ svc_pc = "write"
    /\ \E ok \in BOOLEAN : file_written' = ok
    /\ svc_pc' = "respond"
    /\ UNCHANGED <<entry, url, target_url, crawl_url_arg, provider_calls, provider_error,
                   provider_raised, crawled_pages, http_exc, exc_detail, url_groups,
                   processed_count, filtered_count, final_output, response>>
    /\ UNCHANGED client_vars

\* the response of the endpoint: the document as text/plain, the HTTPException as
\* the framework renders it, or the 500 of the handler's except Exception
Respond ==
    /\ entry = "post"
    /\ svc_pc \in {"respond", "raised", "rejected", "exception"}
    /\ response' =
         IF svc_pc = "respond"
         THEN [status |-> 200, json |-> FALSE, text |-> final_output, data |-> EmptyDict]
         ELSE IF svc_pc \in {"raised", "rejected"}
         THEN [status |-> http_exc, json |-> TRUE, text |-> <<>>, data |-> [detail |-> exc_detail]]
         ELSE [status |-> 500, json |-> FALSE, text |-> <<>>, data |-> EmptyDict]
    /\ svc_pc' = "done"
    /\ UNCHANGED <<entry, url, target_url, crawl_url_arg, provider_calls, provider_error,
                   provider_raised, crawled_pages, http_exc, exc_detail, url_groups,
                   processed_count, filtered_count, final_output, file_written>>
    /\ UNCHANGED client_vars

(***************************************************************************)
(* The client: run_job.                                                    *)
(***************************************************************************)
\* requests.post is sent; the service of main.py starts on the request
ClientPost ==
    /\ client_pc = "start"
    /\ client_pc' = "awaiting"
    /\ svc_pc' = IF entry = "post" THEN "parse" ELSE svc_pc
    /\ UNCHANGED <<entry, url, target_url, crawl_url_arg, provider_calls, provider_error,
                   provider_raised, crawled_pages, http_exc, exc_detail, url_groups,
                   processed_count, filtered_count, final_output, file_written, response>>
    /\ UNCHANGED <<job_id, status_requests, poll_status, clock, last_request_at, console>>

\* requests.post raises (no connection, or no answer within its 10 s timeout)
ClientPostFails ==
    /\ client_pc = "awaiting"
    /\ response = NoResponse
    /\ client_pc' = "returned"
    /\ console' = "Error starting job"
    /\ UNCHANGED <<entry, url, response>>
    /\ UNCHANGED svc_vars
    /\ UNCHANGED <<job_id, status_requests, poll_status, clock, last_request_at>>

\* a server of which only the answers are known answers the POST
ServerAnswersPost ==
    /\ entry = "client"
    /\ client_pc = "awaiting"
    /\ response = NoResponse
    /\ response' \in PostResponses
    /\ UNCHANGED <<entry, url>>
    /\ UNCHANGED svc_vars
    /\ UNCHANGED client_vars

\* lines 32-61 of client.py, on the response to the POST.  response.json() on a body
\* that is no JSON raises: a RequestException with requests >= 2.27 (caught, "Error
\* starting job"), a bare ValueError before (uncaught); a missing status_url is an
\* uncaught KeyError
ClientReceive ==
    /\ client_pc = "awaiting"
    /\ response # NoResponse
    /\ IF raise_for_status(response.status)
       THEN /\ client_pc' = "returned"
            /\ console' = "Error starting job"
            /\ job_id' = job_id
       ELSE IF ~response.json
       THEN /\ client_pc' \in {"returned", "crashed"}
            /\ console' = IF client_pc' = "returned" THEN "Error starting job" ELSE console
            /\ job_id' = job_id
       ELSE IF get(response.data, "job_id", "") = ""
       THEN /\ client_pc' = "returned"
            /\ console' = "Error: No job_id returned from API."
            /\ job_id' = job_id
       ELSE IF "status_url" \notin DOMAIN response.data
       THEN /\ client_pc' = "crashed"
            /\ console' = "Job started successfully"
            /\ job_id' = response.data["job_id"]
       ELSE /\ client_pc' = "poll"
            /\ console' = "Polling status"
            /\ job_id' = response.data["job_id"]
    /\ UNCHANGED <<entry, url, response>>
    /\ UNCHANGED svc_vars
    /\ UNCHANGED <<status_requests, poll_status, clock, last_request_at>>

\* what one pass of the polling loop does with the answer to its status request
poll_branch(answer) ==
    IF answer = RequestRaised THEN "error"
    ELSE IF still_processing(answer) THEN "continue"
    ELSE IF raise_for_status(answer) THEN "error"
    ELSE "completed"

\* one status request and the branch taken on its answer (lines 68-100 but the sleep);
\* the server answers 202 at most MaxPolls times
PollStatus ==
    /\ client_pc = "poll"
    /\ status_requests <= MaxPolls
    /\ \E answer \in StatusAnswers :
         /\ answer = 202 => status_requests < MaxPolls
         /\ status_requests' = status_requests + 1
         /\ last_request_at' = clock
         /\ poll_status' = answer
         /\ client_pc' = IF poll_branch(answer) = "continue" THEN "sleep" ELSE "returned"
         /\ console' = CASE poll_branch(answer) = "continue"  -> "progress"
                         [] poll_branch(answer) = "error"     -> "Error polling for status"
                         [] poll_branch(answer) = "completed" -> "Crawl completed!"
    /\ UNCHANGED <<entry, url, response, job_id, clock>>
    /\ UNCHANGED svc_vars

\* time.sleep(5); continue
Sleep ==
    /\ client_pc = "sleep"
    /\ clock' = clock + PollInterval
    /\ client_pc' = "poll"
    /\ UNCHANGED <<entry, url, response, job_id, status_requests, poll_status,
                   last_request_at, console>>
    /\ UNCHANGED svc_vars

(***************************************************************************)
(* Specifications.                                                         *)
(***************************************************************************)
Next ==
    \/ ClientPost
    \/ ClientPostFails
    \/ ParseRequest
    \/ PerformCrawl
    \/ Group
    \/ Format
    \/ WriteOutput
    \/ Respond
    \/ ClientReceive

Spec == Init /\ [][Next]_vars

ClientNext ==
    \/ ClientPost
    \/ ClientPostFails
    \/ ServerAnswersPost
    \/ ClientReceive
    \/ PollStatus
    \/ Sleep

\* run_job is one thread: a request returns or raises within its timeout, and a
\* sleep ends
ClientSpec == ClientInit /\ [][ClientNext]_vars /\ WF_vars(ClientNext)

(***************************************************************************)
(* Vocabulary of the properties.                                           *)
(***************************************************************************)
\* the page has a sourceURL: metadata with a non-empty sourceURL
HasSourceURL(page) ==
    /\ page.has_metadata
    /\ "sourceURL" \in DOMAIN page.metadata
    /\ page.metadata["sourceURL"] # <<>>

\* the page has a sourceURL that urlparse accepts
Usable(page) == HasSourceURL(page) /\ ~urlparse_raises(page.metadata["sourceURL"])

\* the positions <<g, j>> at which url_groups holds the page
Places(page) ==
    { <<g, j>> \in (1..Len(url_groups)) \X (1..MaxPages + 1) :
        j <= Len(url_groups[g].pages) /\ url_groups[g].pages[j] = page }

RECURSIVE SumLen(_)
SumLen(groups) ==
    IF groups = <<>> THEN 0 ELSE Len(Head(groups).pages) + SumLen(Tail(groups))

InputPages == {crawled_pages[i] : i \in 1..Len(crawled_pages)}

\* group_crawled_pages was called and has returned a mapping
GroupReturned ==
    \/ svc_pc \in {"format", "write", "respond"}
    \/ entry = "group" /\ svc_pc = "returned"
    \/ entry = "post" /\ svc_pc = "done" /\ final_output # <<>>

\* group_crawled_pages was called and has raised
GroupRaised ==
    \/ entry = "group" /\ svc_pc = "raised"
    \/ entry = "post" /\ svc_pc = "raised" /\ provider_calls = 1 /\ ~provider_raised
         /\ exc_detail \notin {"No Response Found!", "No Data Found!"}

\* perform_crawl was called and has ended
CrawlEnded ==
    /\ entry \in {"post", "call"}
    /\ target_url # NoUrl
    /\ svc_pc \notin {"idle", "parse", "crawl"}

\* format_groups_to_llmstxt has returned the document
DocumentMade == final_output # <<>>

\* the non-blank lines of the document
DocLines == SelectSeq(split(final_output, "\n"), LAMBDA line : line # <<>>)

IsHeading(line) == Len(line) >= 3 /\ SubSeq(line, 1, 3) = <<"#", "#", " ">>

\* the positions of the heading lines among lines
HeadingAt(lines) == {i \in 1..Len(lines) : IsHeading(lines[i])}

\* the group key heading line i names
KeyAt(lines, i) == from(lines[i], 4)

\* the lines between heading i and the next heading
EntriesUnder(lines, i) ==
    LET later == {j \in HeadingAt(lines) : j > i}
        stop  == IF later = {} THEN Len(lines) + 1
                 ELSE CHOOSE j \in later : \A k \in later : j <= k
    IN  SubSeq(lines, i + 1, stop - 1)

\* the usable pages of the input whose group key is key, in input order
PagesOfKey(key) ==
    SelectSeq(crawled_pages,
              LAMBDA page : Usable(page) /\ group_key(page.metadata["sourceURL"]) = key)

\* the entries format_entry makes of pages under the heading of key
EntriesOf(pages, key) == [n \in 1..Len(pages) |-> format_entry(pages[n], key)]

\* the headings of lines ascend, are the keys of the usable pages, and have the
\* entries of their pages in input order
SortedByKeyInInputOrder(lines) ==
    /\ \A i, j \in HeadingAt(lines) : i < j => str_less(KeyAt(lines, i), KeyAt(lines, j))
    /\ {KeyAt(lines, i) : i \in HeadingAt(lines)} =
          {group_key(page.metadata["sourceURL"]) : page \in {q \in InputPages : Usable(q)}}
    /\ \A i \in HeadingAt(lines) :
          EntriesUnder(lines, i) = EntriesOf(PagesOfKey(KeyAt(lines, i)), KeyAt(lines, i))

\* the entry line with the link label the description of the format gives: the
\* title when the page has one, the group key otherwise
LabelledEntry(page, key) ==
    LET has_title == "title" \in DOMAIN page.metadata /\ page.metadata["title"] # <<>>
        label     == IF has_title THEN page.metadata["title"] ELSE key
        has_desc  == "description" \in DOMAIN page.metadata
                        /\ page.metadata["description"] # <<>>
        line      == <<"-", " ", "[">> \o label \o <<"]", "(">>
                        \o page.metadata["sourceURL"] \o <<")">>
    IN  IF has_desc THEN line \o <<":", " ">> \o page.metadata["description"] ELSE line

\* the entries LabelledEntry makes of pages under the heading of key
LabelledEntriesOf(pages, key) == [n \in 1..Len(pages) |-> LabelledEntry(pages[n], key)]

\* every heading of lines has the labelled entries of its pages
LabelledAsDescribed(lines) ==
    \A i \in HeadingAt(lines) :
        EntriesUnder(lines, i) =
            LabelledEntriesOf(PagesOfKey(KeyAt(lines, i)), KeyAt(lines, i))

ClientExited == client_pc \in {"returned", "crashed"}

(***************************************************************************)
(* Properties.                                                             *)
(***************************************************************************)

\* C1: in the polling loop of run_job a status request after the first is issued
\* only when the answer before was 202 and the 5 seconds of sleep have passed; the
\* first answer that is not 202, or the first status request that raises, ends the
\* loop, after which no status request is issued; and since the server stops
\* answering 202 at some point, a polling client eventually exits.
C1_PollUntilTerminal ==
    /\ [][status_requests' # status_requests =>
            /\ status_requests' = status_requests + 1
            /\ client_pc = "poll"
            /\ status_requests > 0 =>
                  poll_status = 202 /\ clock >= last_request_at + PollInterval]_vars
    /\ [][(status_requests' # status_requests /\ poll_status' # 202) => ClientExited']_vars
    /\ [][ClientExited => (ClientExited' /\ status_requests' = status_requests)]_vars
    /\ (client_pc = "poll") ~> ClientExited

\* a client that polled, slept and polled again, and left the loop on a 404
C1_Witness ==
    /\ ClientExited
    /\ status_requests >= 2
    /\ poll_status = 404
    /\ clock >= PollInterval

\* C2: the client takes 202 for "not yet done", 200 for success and every other
\* status for failure: it prints "Crawl completed!" (and the body as the final
\* document) only on a 200, and an answer other than 200 and 202 is reported as an
\* error.
C2_CompletedOnlyOn200 ==
    /\ console = "Crawl completed!" => poll_status = 200
    /\ (ClientExited /\ status_requests > 0 /\ poll_status \notin {200, 202})
          => console = "Error polling for status"

\* C3: a successful POST /generate-llms-txt answers with a job handle {job_id,
\* status_url} before the crawl is over: whenever the service has produced the
\* document the client holds a job_id and is polling, and a 2xx answer to the POST
\* carries job_id and status_url.
C3_JobHandleBeforeDocument ==
    /\ (entry = "post" /\ DocumentMade) => (job_id # "" /\ client_pc \in {"poll", "sleep"})
    /\ (entry = "post" /\ response.status \in 200..299) =>
          (response.json /\ {"job_id", "status_url"} \subseteq DOMAIN response.data)

C5_SchemeAndHost ==
    (CrawlEnded /\ ~urlparse_raises(target_url)) =>
        /\ validate_url_scheme(target_url) <=>
              (urlparse(target_url).scheme \in {http, https}
                  /\ urlparse(target_url).netloc # <<>>)
        /\ validate_url_scheme(target_url) <=> helpers_validate_url_scheme(target_url)
        /\ provider_calls > 0 => urlparse(crawl_url_arg).netloc # <<>>

\* C6 as stated: when group_crawled_pages returns, every page that has a sourceURL
\* is in exactly one group, the one of its group key; every page without metadata
\* or without sourceURL is in no group and counted as filtered; processed +
\* filtered is the number of pages and processed the number of entries.
C6_EveryPageWithSourceGrouped ==
    GroupReturned =>
        /\ \A page \in InputPages :
              IF HasSourceURL(page)
              THEN \E g \in 1..Len(url_groups) : \E j \in 1..Len(url_groups[g].pages) :
                      /\ Places(page) = {<<g, j>>}
                      /\ url_groups[g].key = group_key(page.metadata["sourceURL"])
              ELSE Places(page) = {}
        /\ filtered_count = Cardinality({page \in InputPages : ~HasSourceURL(page)})
        /\ processed_count + filtered_count = Len(crawled_pages)
        /\ processed_count = SumLen(url_groups)

\* C6 amended: when group_crawled_pages returns, every page whose sourceURL is
\* non-empty and accepted by urlparse is in exactly one group, the one of its group
\* key, and no two groups share a key; every other page (no metadata, no or an
\* empty sourceURL, or a sourceURL urlparse rejects) is in no group and counted as
\* filtered; processed + filtered is the number of pages and processed the number
\* of entries.
C6_EveryUsablePageGrouped ==
    GroupReturned =>
        /\ \A page \in InputPages :
              IF Usable(page)
              THEN \E g \in 1..Len(url_groups) : \E j \in 1..Len(url_groups[g].pages) :
                      /\ Places(page) = {<<g, j>>}
                      /\ url_groups[g].key = group_key(page.metadata["sourceURL"])
              ELSE Places(page) = {}
        /\ \A g, h \in 1..Len(url_groups) : url_groups[g].key = url_groups[h].key => g = h
        /\ filtered_count = Cardinality({page \in InputPages : ~Usable(page)})
        /\ processed_count + filtered_count = Len(crawled_pages)
        /\ processed_count = SumLen(url_groups)

\* a returned grouping with a group of two pages and a page filtered for a
\* sourceURL urlparse rejects
C6_Witness ==
    /\ GroupReturned
    /\ filtered_count = 1
    /\ \E g \in 1..Len(url_groups) : Len(url_groups[g].pages) >= 2
    /\ \E page \in InputPages : HasSourceURL(page) /\ ~Usable(page)

\* C7: group_crawled_pages raises "No pages were found to process" exactly on an
\* empty list and "No valid pages found after filtering" exactly on a non-empty
\* list without a page with a usable sourceURL, both without a mapping; on every
\* other list it returns a non-empty mapping and raises nothing.
C7_GroupingFailures ==
    /\ GroupRaised =>
          /\ http_exc = 404
          /\ url_groups = <<>>
          /\ exc_detail = (IF crawled_pages = <<>>
                           THEN "No pages were found to process"
                           ELSE "No valid pages found after filtering")
          /\ \A page \in InputPages : ~Usable(page)
    /\ GroupReturned =>
          /\ http_exc = 0
          /\ url_groups # <<>>
          /\ \E page \in InputPages : Usable(page)

\* both failures happen: here the one of a non-empty list without usable page
C7_Witness ==
    /\ GroupRaised
    /\ Len(crawled_pages) >= 2
    /\ exc_detail = "No valid pages found after filtering"
    /\ \E page \in InputPages : HasSourceURL(page)

\* C8: the document lists the headings in ascending order of the group keys,
\* one heading per group key of the input, whatever the order of the pages, and
\* under each heading the entries of the pages of that group in input order.
C8_HeadingsSortedEntriesInInputOrder ==
    DocumentMade => SortedByKeyInInputOrder(DocLines)

\* a document made from pages met in descending key order, with two pages in a group
C8_Witness ==
    /\ DocumentMade
    /\ Len(url_groups) >= 2
    /\ str_less(url_groups[2].key, url_groups[1].key)
    /\ \E g \in 1..Len(url_groups) : Len(url_groups[g].pages) >= 2

\* C9: the entry of every page of the document has the page's title as link
\* label when the page has a title, and the group key when it has none (no title
\* in the metadata, or an empty one); ": description" follows exactly when the
\* page has a description.
C9_LabelIsTitleOrGroupKey ==
    DocumentMade => LabelledAsDescribed(DocLines)

\* C10: an exception of the provider call leaves perform_crawl as exactly one
\* HTTPException: 408 for a timeout, else 429 for a rate limit or quota, else 404
\* for not found, and 502 exactly when no pattern matches; handle_crawl_exception
\* maps it alike; and the provider is called once, never again.
C10_ProviderErrorsClassified ==
    /\ provider_calls <= 1
    /\ provider_raised =>
          LET e        == provider_error
              timeout  == contains(s_timeout, lower(e))
              limited  == contains(s_rate_limit, lower(e)) \/ contains(s_quota, lower(e))
              notfound == contains(s_not_found, lower(e)) \/ contains(s_404, e)
          IN  /\ svc_pc \in {"raised", "done"}
              /\ provider_calls = 1
              /\ http_exc \in {408, 429, 404, 502}
              /\ http_exc = 408 <=> timeout
              /\ http_exc = 429 <=> (~timeout /\ limited)
              /\ http_exc = 404 <=> (~timeout /\ ~limited /\ notfound)
              /\ http_exc = 502 <=> (~timeout /\ ~limited /\ ~notfound)
              /\ handle_crawl_exception(e) = http_exc
              /\ crawled_pages = <<>>

\* the provider raised an error that names a quota and a timeout
C10_Witness ==
    /\ provider_raised
    /\ provider_error = <<"q","u","o","t","a"," ","t","i","m","e","o","u","t">>
    /\ http_exc = 408
    /\ svc_pc = "raised"

====
